---------------------------- MODULE Spec2Model ----------------------------
(* Model of src/src/data_transformer.py: DataTransformer.clean_stock_data  *)
(* and DataTransformer.calculate_technical_indicators, with the pandas     *)
(* operations they call modelled by what they do to the frame.             *)
EXTENDS Integers, Sequences, FiniteSets, TLC

VARIABLES raw, out1, out2, pc,
          heap, arg, ret, before, zeroSign, ipc

cvars == <<raw, out1, out2, pc>>
ivars == <<heap, arg, ret, before, zeroSign, ipc>>
vars == <<raw, out1, out2, pc, heap, arg, ret, before, zeroSign, ipc>>

-----------------------------------------------------------------------------
(* Bounds of the model: the rows of a raw batch and the rows of a price    *)
(* series.                                                                 *)
MaxRows == 3
MaxLen == 51

-----------------------------------------------------------------------------
(* Cells of a raw or cleaned frame. A cell is missing (NaN, or NaT in a    *)
(* datetime column), a text, a number or a parsed timestamp.               *)
NaN == [kind |-> "nan", s |-> "", n |-> 0]
NaT == [kind |-> "nat", s |-> "", n |-> 0]
Str(x) == [kind |-> "str", s |-> x, n |-> 0]
Num(x) == [kind |-> "num", s |-> "", n |-> x]
Ts(d) == [kind |-> "ts", s |-> "", n |-> d]

isna(c) == c.kind \in {"nan", "nat"}

(* The texts that parse as dates, with the day they denote, and the texts  *)
(* that parse as numbers, with their value.                                *)
DateTexts == {"2023-01-01", "2023-01-02"}
DayOf(s) == IF s = "2023-01-01" THEN 1 ELSE 2
NumberTexts == {"100", "99"}
ValueOf(s) == IF s = "100" THEN 100 ELSE 99

(* Values a raw column can hold: the symbol the fetcher sets, and for a   *)
(* date or a price a missing value, texts that parse, a text that does     *)
(* not, and (for a price) a number; the open price is always a text that   *)
(* parses.                                                                 *)
SymbolCells == {Str("AAPL")}
OpenCells == {Str("99")}
DateCells == {NaN, Str("2023-01-01"), Str("2023-01-02"), Str("not-a-date")}
PriceCells == {NaN, Num(100), Str("100"), Str("abc")}

price_columns == <<"open", "close", "high", "low">>
InputColumns == {"symbol", "date", "open", "close"}

CellsOf(col) == IF col = "symbol" THEN SymbolCells
                ELSE IF col = "date" THEN DateCells
                ELSE IF col = "open" THEN OpenCells ELSE PriceCells

(* A frame: its columns and its rows in order, each row carrying the index *)
(* label pandas keeps through drop_duplicates, fillna and dropna.          *)
Frame(cols, rows) == [columns |-> cols, rows |-> rows]

RowCells(cols) == { r \in [cols -> SymbolCells \cup DateCells \cup OpenCells \cup PriceCells] :
                        \A c \in cols : r[c] \in CellsOf(c) }

-----------------------------------------------------------------------------
(* pandas operations used by clean_stock_data.                             *)

(* DataFrame.drop_duplicates(): keep the first of the rows that are equal  *)
(* in every column (missing equals missing); a frame with no columns is    *)
(* returned as it is.                                                      *)
RECURSIVE DropDupRows(_, _)
DropDupRows(rows, seen) ==
    IF rows = <<>> THEN <<>>
    ELSE IF Head(rows).cells \in seen THEN DropDupRows(Tail(rows), seen)
    ELSE <<Head(rows)>> \o DropDupRows(Tail(rows), seen \cup {Head(rows).cells})

drop_duplicates(df) ==
    IF df.columns = {} THEN df ELSE Frame(df.columns, DropDupRows(df.rows, {}))

(* DataFrame.fillna(method='ffill'): per column, a missing cell takes the  *)
(* last non-missing cell above it; `last` is that cell per column, or NaN. *)
RECURSIVE FFillRows(_, _)
FFillRows(rows, last) ==
    IF rows = <<>> THEN <<>>
    ELSE LET r == Head(rows)
             filled == [c \in DOMAIN r.cells |->
                          IF isna(r.cells[c]) THEN last[c] ELSE r.cells[c]]
         IN <<[idx |-> r.idx, cells |-> filled]>> \o FFillRows(Tail(rows), filled)

(* Mutant of fillna_ffill: method='bfill', filling from the row below.     *)
RECURSIVE BFillRows(_)
BFillRows(rows) ==
    IF rows = <<>> THEN <<>>
    ELSE LET rest == BFillRows(Tail(rows))
             r == Head(rows)
             filled == [c \in DOMAIN r.cells |->
                          IF isna(r.cells[c]) /\ rest # <<>>
                          THEN rest[1].cells[c] ELSE r.cells[c]]
         IN <<[idx |-> r.idx, cells |-> filled]>> \o rest

fillna_bfill(df) == Frame(df.columns, BFillRows(df.rows))

fillna_ffill(df) ==
    Frame(df.columns, FFillRows(df.rows, [c \in df.columns |-> NaN]))

(* pd.to_datetime(series) with the default errors='raise': a missing cell  *)
(* becomes NaT, a timestamp stays, a text is parsed, and a text that is no *)
(* date makes the call raise.                                              *)
DatetimeRaises(c) == c.kind = "str" /\ c.s \notin DateTexts
to_datetime(c) ==
    IF isna(c) THEN NaT
    ELSE IF c.kind = "str" THEN Ts(DayOf(c.s))
    ELSE Ts(c.n)

(* pd.to_numeric(series, errors='coerce'): a number stays, a text is       *)
(* parsed, and what cannot be parsed becomes NaN.                          *)
to_numeric(c) ==
    IF isna(c) THEN NaN
    ELSE IF c.kind = "str" THEN (IF c.s \in NumberTexts THEN Num(ValueOf(c.s)) ELSE NaN)
    ELSE Num(c.n)

(* df[col]: the cells of a column, in row order.                           *)
Column(df, col) == [i \in 1..Len(df.rows) |-> df.rows[i].cells[col]]

(* df[col] = series                                                        *)
AssignColumn(df, col, series) ==
    Frame(df.columns,
          [i \in 1..Len(df.rows) |->
              [idx |-> df.rows[i].idx,
               cells |-> [c \in df.columns |->
                            IF c = col THEN series[i] ELSE df.rows[i].cells[c]]]])

to_datetime_series(x) == [i \in 1..Len(x) |-> to_datetime(x[i])]
to_numeric_series(x) == [i \in 1..Len(x) |-> to_numeric(x[i])]

(* DataFrame.dropna(): drop every row holding a missing cell.              *)
HasNa(r) == \E c \in DOMAIN r.cells : isna(r.cells[c])
KeepRow(r) == ~HasNa(r)
AllNa(r) == \A c \in DOMAIN r.cells : isna(r.cells[c])
KeepUnlessAllNa(r) == ~AllNa(r)
(* Mutant of dropna: how='all', dropping only the rows missing everywhere. *)
dropna_how_all(df) == Frame(df.columns, SelectSeq(df.rows, KeepUnlessAllNa))
dropna(df) == Frame(df.columns, SelectSeq(df.rows, KeepRow))

-----------------------------------------------------------------------------
(* clean_stock_data, step by step. The result is the frame returned, or a  *)
(* raised exception.                                                       *)
Returned(df) == [raised |-> FALSE, df |-> df]
Raised == [raised |-> TRUE, df |-> Frame({}, <<>>)]

(* lines 27-28: the date column is converted only if it is there.          *)
DateGuard(df) == "date" \in df.columns
ConvertDate(df) ==
    IF DateGuard(df)
    THEN AssignColumn(df, "date", to_datetime_series(Column(df, "date")))
    ELSE df
(* Mutant of DateRaises: df['date'] read without the guard of line 27, a  *)
(* KeyError when the column is absent.                                     *)
DateRaisesUnguarded(df) ==
    IF DateGuard(df)
    THEN \E i \in 1..Len(df.rows) : DatetimeRaises(df.rows[i].cells["date"])
    ELSE TRUE
DateRaises(df) ==
    IF DateGuard(df)
    THEN \E i \in 1..Len(df.rows) : DatetimeRaises(df.rows[i].cells["date"])
    ELSE FALSE

(* lines 31-34: each price column that is there is coerced to a number.    *)
PriceGuard(df, col) == col \in df.columns
RECURSIVE ConvertPrices(_, _)
ConvertPrices(df, k) ==
    IF k > Len(price_columns) THEN df
    ELSE ConvertPrices(IF PriceGuard(df, price_columns[k])
                       THEN AssignColumn(df, price_columns[k],
                                         to_numeric_series(Column(df, price_columns[k])))
                       ELSE df,
                       k + 1)

(* lines 26-36, on the frame left by lines 21 and 24.                      *)
ConvertAndDrop(filled) ==
    IF DateRaises(filled) THEN Raised
    ELSE Returned(dropna(ConvertPrices(ConvertDate(filled), 1)))

clean_stock_data(df) == ConvertAndDrop(fillna_ffill(drop_duplicates(df)))

-----------------------------------------------------------------------------
(* The caller of clean_stock_data: it holds a raw batch, cleans it, and    *)
(* cleans the cleaned batch again. The indicator variables are idle here.  *)
NoFrame == Frame({}, <<>>)

CleanInit ==
    /\ \E cols \in SUBSET InputColumns, len \in 0..MaxRows :
          /\ cols = {} => len = 0
          /\ \E f \in [1..len -> RowCells(cols)] :
                raw = Frame(cols, [i \in 1..len |-> [idx |-> i - 1, cells |-> f[i]]])
    /\ out1 = NoFrame
    /\ out2 = NoFrame
    /\ pc = "raw"
    /\ heap = <<>> /\ arg = 0 /\ ret = 0 /\ before = <<>> /\ zeroSign = 1
    /\ ipc = "idle"

(* out1 = clean_stock_data(raw)                                            *)
Clean ==
    /\ pc = "raw"
    /\ LET res == clean_stock_data(raw)
       IN IF res.raised
          THEN pc' = "raised" /\ out1' = out1
          ELSE pc' = "cleaned" /\ out1' = res.df
    /\ UNCHANGED <<raw, out2>>
    /\ UNCHANGED ivars

(* out2 = clean_stock_data(out1)                                           *)
Reclean ==
    /\ pc = "cleaned"
    /\ LET res == clean_stock_data(out1)
       IN IF res.raised
          THEN pc' = "raised" /\ out2' = out2
          ELSE pc' = "recleaned" /\ out2' = res.df
    /\ UNCHANGED <<raw, out1>>
    /\ UNCHANGED ivars

CleanNext == Clean \/ Reclean

SpecClean == CleanInit /\ [][CleanNext]_vars

-----------------------------------------------------------------------------
(* Floating-point values of the indicator columns: NaN, an infinity, or a  *)
(* finite value s * n / d kept exactly (rounding is not modelled). Zero    *)
(* and infinity carry their sign, as IEEE 754 values do.                   *)
FNaN == [k |-> "nan", s |-> 1, n |-> 0, d |-> 1]
FInf(sg) == [k |-> "inf", s |-> sg, n |-> 0, d |-> 1]
Fin(sg, n, d) == [k |-> "fin", s |-> sg, n |-> n, d |-> d]
FInt(x) == IF x < 0 THEN Fin(-1, -x, 1) ELSE Fin(1, x, 1)
Signed(x) == x.s * x.n

FNeg(a) == IF a.k = "nan" THEN a ELSE [a EXCEPT !.s = -a.s]

FAdd(a, b) ==
    IF a.k = "nan" \/ b.k = "nan" THEN FNaN
    ELSE IF a.k = "inf" /\ b.k = "inf" THEN (IF a.s = b.s THEN a ELSE FNaN)
    ELSE IF a.k = "inf" THEN a
    ELSE IF b.k = "inf" THEN b
    ELSE LET v == Signed(a) * b.d + Signed(b) * a.d
         IN IF v = 0 THEN Fin(IF a.s = -1 /\ b.s = -1 THEN -1 ELSE 1, 0, a.d * b.d)
            ELSE IF v < 0 THEN Fin(-1, -v, a.d * b.d)
            ELSE Fin(1, v, a.d * b.d)

FSub(a, b) == FAdd(a, FNeg(b))

FDiv(a, b) ==
    IF a.k = "nan" \/ b.k = "nan" THEN FNaN
    ELSE IF a.k = "inf" THEN (IF b.k = "inf" THEN FNaN ELSE FInf(a.s * b.s))
    ELSE IF b.k = "inf" THEN Fin(a.s * b.s, 0, 1)
    ELSE IF b.n = 0 THEN (IF a.n = 0 THEN FNaN ELSE FInf(a.s * b.s))
    ELSE Fin(a.s * b.s, a.n * b.d, a.d * b.n)

FGt(a, b) == a.k = "fin" /\ b.k = "fin" /\ Signed(a) * b.d > Signed(b) * a.d
FLt(a, b) == FGt(b, a)

-----------------------------------------------------------------------------
(* pandas operations used by calculate_technical_indicators, on a series   *)
(* (a sequence of floating-point values; row i of pandas is element i+1).  *)

(* Series.diff(): NaN in the first row, then the change from the row above.*)
diff(x) == [i \in 1..Len(x) |-> IF i = 1 THEN FNaN ELSE FSub(x[i], x[i - 1])]

(* Series.where(cond, other): the value where cond holds, else other; a    *)
(* comparison with NaN is false.                                           *)
WhereGt0(x) == [i \in 1..Len(x) |-> IF FGt(x[i], FInt(0)) THEN x[i] ELSE FInt(0)]
WhereLt0(x) == [i \in 1..Len(x) |-> IF FLt(x[i], FInt(0)) THEN x[i] ELSE FInt(0)]
Negate(x) == [i \in 1..Len(x) |-> FNeg(x[i])]

(* Series.rolling(window).mean(), min_periods = window: a running sum and  *)
(* a count of the non-NaN values; the row entering the window is added and *)
(* the row leaving it is removed; the mean is NaN until the count reaches  *)
(* min_periods. The values here are whole numbers. A window holding only   *)
(* negative zeros has a mean of zero whose sign depends on the pandas      *)
(* version: zs.                                                            *)
min_periods(window) == window
(* Mutant of WindowStart: the window is one row longer than asked.         *)
WindowStartLate(i, window) == i - window - 1
WindowStart(i, window) == i - window

AllNegZero(x, lo, hi) == \A j \in lo..hi : x[j].k = "fin" /\ x[j].n = 0 /\ x[j].s = -1

MeanOf(x, i, window, sum, nobs, zs) ==
    IF nobs >= min_periods(window) /\ nobs > 0
    THEN IF sum = 0
         THEN Fin(IF AllNegZero(x, IF i - window + 1 < 1 THEN 1 ELSE i - window + 1, i)
                  THEN zs ELSE 1, 0, nobs)
         ELSE IF sum < 0 THEN Fin(-1, -sum, nobs) ELSE Fin(1, sum, nobs)
    ELSE FNaN

RECURSIVE RollingFrom(_, _, _, _, _, _, _)
RollingFrom(x, window, i, sum, nobs, zs, acc) ==
    IF i > Len(x) THEN acc
    ELSE LET out == WindowStart(i, window)
             addS == IF x[i].k = "nan" THEN 0 ELSE Signed(x[i])
             addN == IF x[i].k = "nan" THEN 0 ELSE 1
             remS == IF out >= 1 /\ x[out].k # "nan" THEN Signed(x[out]) ELSE 0
             remN == IF out >= 1 /\ x[out].k # "nan" THEN 1 ELSE 0
             sum2 == sum + addS - remS
             nobs2 == nobs + addN - remN
         IN RollingFrom(x, window, i + 1, sum2, nobs2, zs,
                        Append(acc, MeanOf(x, i, window, sum2, nobs2, zs)))

rolling_mean(x, window, zs) == RollingFrom(x, window, 1, 0, 0, zs, <<>>)

(* df[col] = series, on the frame object itself.                           *)
SetItem(df, col, series) ==
    [c \in (DOMAIN df) \cup {col} |-> IF c = col THEN series ELSE df[c]]

-----------------------------------------------------------------------------
(* calculate_technical_indicators: the frame the object holds when the     *)
(* call returns.                                                           *)
SMA20Window == 20
SMA50Window == 50
RSIWindow == 14

(* line 56: RSI from the rolling means of gain and loss (line 55: rs).     *)
RSIValue(gain, loss) ==
    FSub(FInt(100), FDiv(FInt(100), FAdd(FInt(1), FDiv(gain, loss))))

RSIFrom(gain, loss) == [i \in 1..Len(gain) |-> RSIValue(gain[i], loss[i])]

(* lines 53-54: gain and loss, from delta.                                 *)
GainInput(delta) == WhereGt0(delta)
LossInput(delta) == Negate(WhereLt0(delta))

RSIOfDelta(delta, zs) ==
    RSIFrom(rolling_mean(GainInput(delta), RSIWindow, 1),
            rolling_mean(LossInput(delta), RSIWindow, zs))

(* line 52: delta.                                                         *)
RSIColumn(close, zs) == RSIOfDelta(diff(close), zs)

AddSMA20(df) == SetItem(df, "SMA_20", rolling_mean(df["close"], SMA20Window, 1))
AddSMA50(df) == SetItem(df, "SMA_50", rolling_mean(df["close"], SMA50Window, 1))
AddRSI(df, zs) == SetItem(df, "RSI", RSIColumn(df["close"], zs))

calculate_technical_indicators(df, zs) == AddRSI(AddSMA50(AddSMA20(df)), zs)

-----------------------------------------------------------------------------
(* The caller of calculate_technical_indicators: it holds one frame object *)
(* (heap[arg]) with a close column, and passes it. The close series       *)
(* starts at 100 and changes by stepA per row up to row k and by stepB per *)
(* row after it.                                                           *)
Steps == {-1, 0, 1}

CloseSeries(len, k, stepA, stepB) ==
    [i \in 1..len |->
        FInt(100 + stepA * (IF i - 1 < k THEN i - 1 ELSE k)
                       + stepB * (IF i - 1 < k THEN 0 ELSE i - 1 - k))]

IndInit ==
    /\ \E len \in 0..MaxLen, k \in 0..MaxLen, stepA \in Steps, stepB \in Steps :
          /\ k <= len
          /\ heap = <<[c \in {"close"} |-> CloseSeries(len, k, stepA, stepB)]>>
    /\ zeroSign \in {1, -1}
    /\ arg = 1
    /\ ret = 0
    /\ before = heap[arg]
    /\ ipc = "start"
    /\ raw = NoFrame /\ out1 = NoFrame /\ out2 = NoFrame /\ pc = "idle"

(* ret = calculate_technical_indicators(heap[arg]): the columns are set on *)
(* the object passed, and that object is returned.                         *)
Annotate ==
    /\ ipc = "start"
    /\ heap' = [heap EXCEPT ![arg] = calculate_technical_indicators(heap[arg], zeroSign)]
    /\ ret' = arg
    /\ ipc' = "done"
    /\ UNCHANGED <<arg, before, zeroSign>>
    /\ UNCHANGED cvars

IndNext == Annotate

SpecInd == IndInit /\ [][IndNext]_vars

-----------------------------------------------------------------------------
(* Properties of clean_stock_data, under SpecClean.                        *)

PriceColumnSet == {"open", "high", "low", "close"}
HasReturned == pc \in {"cleaned", "recleaned"}
Missing(c) == c.kind \in {"nan", "nat"}

RowIsComplete(df, r) ==
    \A c \in df.columns :
        /\ ~Missing(r.cells[c])
        /\ c \in PriceColumnSet => r.cells[c].kind = "num"
        /\ c = "date" => r.cells[c].kind = "ts"

FrameIsComplete(df) == \A i \in 1..Len(df.rows) : RowIsComplete(df, df.rows[i])

(* C1: every row of a batch returned by clean_stock_data has no missing    *)
(* value in any column; its price cells are numbers and its date cell is a *)
(* parsed date.                                                            *)
C1_Complete ==
    /\ HasReturned => FrameIsComplete(out1)
    /\ pc = "recleaned" => FrameIsComplete(out2)

(* C1 witness: a batch with a missing close that forward-fill repairs and  *)
(* with an unparseable close has been cleaned, and the repaired row is in  *)
(* the result.                                                             *)
C1_Witness ==
    /\ pc = "cleaned"
    /\ raw.columns = {"symbol", "date", "open", "close"}
    /\ \E i, j \in 1..Len(raw.rows) :
          /\ raw.rows[i].cells["close"] = NaN
          /\ raw.rows[j].cells["close"] = Str("abc")
          /\ \E m \in 1..Len(out1.rows) : out1.rows[m].idx = i - 1

(* C2 as claimed: cleaning a cleaned batch returns the same rows in the    *)
(* same order.                                                             *)
C2_Idempotent == pc = "recleaned" => out2 = out1

(* C3 as claimed: a returned batch holds no two rows equal in every field. *)
C3_NoDuplicateRows ==
    HasReturned =>
        \A i, j \in 1..Len(out1.rows) :
            i < j => out1.rows[i].cells # out1.rows[j].cells

(* C4 as claimed: clean_stock_data never ends in an error on a             *)
(* record-shaped batch.                                                    *)
C4_NeverRaises == pc # "raised"

(* The columns of the record shape.                                        *)
RequiredColumns == {"symbol", "date", "open", "high", "low", "close"}
MissingRequired == RequiredColumns \ raw.columns
HasBadDate ==
    /\ "date" \in raw.columns
    /\ \E i \in 1..Len(raw.rows) :
          /\ raw.rows[i].cells["date"].kind = "str"
          /\ raw.rows[i].cells["date"].s \notin {"2023-01-01", "2023-01-02"}

(* C9 as claimed: a batch (here one with rows) lacking a required column   *)
(* is rejected with a failure and no cleaned batch is returned.            *)
C9_RejectsMissingColumn ==
    (pc # "raw" /\ MissingRequired # {} /\ raw.rows # <<>>) => pc = "raised"

(* C9 amended: a batch lacking a required column is not rejected for that: *)
(* the call fails exactly when a date column is present and holds an       *)
(* unparseable date, and otherwise returns a cleaned batch with exactly    *)
(* the columns of the input, so without the absent column.                 *)
C9_ReturnsWithoutColumn ==
    (pc # "raw" /\ MissingRequired # {}) =>
        /\ pc = "raised" <=> HasBadDate
        /\ pc # "raised" => out1.columns = raw.columns

(* C9 witness: a batch without a date column has been cleaned and rows are *)
(* returned.                                                               *)
C9_Witness ==
    /\ pc = "cleaned"
    /\ "date" \notin raw.columns
    /\ {"symbol", "open", "close"} \subseteq raw.columns
    /\ Len(out1.rows) >= 1

(* What forward-fill after deduplication is claimed to do, stated on the   *)
(* raw batch: the rows kept are the first occurrences; the source of a     *)
(* cell is the nearest kept row at or above it whose cell is not missing.  *)
IsFirst(i) == \A j \in 1..(i - 1) : raw.rows[j].cells # raw.rows[i].cells
Sources(i, c) == { j \in 1..i : IsFirst(j) /\ raw.rows[j].cells[c].kind # "nan" }
Last(S) == CHOOSE j \in S : \A m \in S : m <= j
FilledFrom(cell, S, c) ==
    IF S = {} THEN cell.kind = "nan" ELSE cell = raw.rows[Last(S)].cells[c]

FilledIsNearest(filled) ==
    /\ \A m \in 1..Len(filled.rows) :
          LET i == filled.rows[m].idx + 1
          IN /\ i \in 1..Len(raw.rows) /\ IsFirst(i)
             /\ \A c \in raw.columns :
                   FilledFrom(filled.rows[m].cells[c], Sources(i, c), c)
    /\ \A i \in 1..Len(raw.rows) :
          IsFirst(i) => \E m \in 1..Len(filled.rows) : filled.rows[m].idx = i - 1

(* The returned cell o holds the value of the raw cell r: the same text,   *)
(* the number a text price denotes, or the day a text date denotes.        *)
SameValue(o, r) ==
    \/ o = r
    \/ o.kind = "num" /\ r = Str("100") /\ o.n = 100
    \/ o.kind = "num" /\ r = Str("99") /\ o.n = 99
    \/ o.kind = "ts" /\ r = Str("2023-01-01") /\ o.n = 1
    \/ o.kind = "ts" /\ r = Str("2023-01-02") /\ o.n = 2

ReturnedFrom(cell, S, c) ==
    S # {} /\ SameValue(cell, raw.rows[Last(S)].cells[c])

ExampleBatch ==
    Frame({"symbol", "date", "close"},
          <<[idx |-> 0, cells |-> [symbol |-> Str("AAPL"), date |-> Str("2023-01-01"), close |-> NaN]],
            [idx |-> 1, cells |-> [symbol |-> Str("AAPL"), date |-> Str("2023-01-02"), close |-> Num(100)]],
            [idx |-> 2, cells |-> [symbol |-> Str("AAPL"), date |-> Str("2023-01-01"), close |-> NaN]]>>)
ExampleCleaned ==
    Frame({"symbol", "date", "close"},
          <<[idx |-> 1, cells |-> [symbol |-> Str("AAPL"), date |-> Ts(2), close |-> Num(100)]]>>)

(* C10: after exact duplicates are collapsed, a missing value is replaced  *)
(* by the nearest preceding non-missing value of its column; a value with  *)
(* no such predecessor stays missing and its row is not returned; every    *)
(* returned row is an input row, in input order; the example batch cleans  *)
(* to its single complete row.                                             *)
C10_ForwardFill ==
    /\ pc = "raw" => FilledIsNearest(fillna_ffill(drop_duplicates(raw)))
    /\ HasReturned =>
          /\ \A m \in 1..Len(out1.rows) :
                LET i == out1.rows[m].idx + 1
                IN /\ i \in 1..Len(raw.rows) /\ IsFirst(i)
                   /\ \A c \in raw.columns :
                         ReturnedFrom(out1.rows[m].cells[c], Sources(i, c), c)
          /\ \A m, k \in 1..Len(out1.rows) : m < k => out1.rows[m].idx < out1.rows[k].idx
          /\ Len(out1.rows) <= Len(raw.rows)
    /\ (HasReturned /\ raw = ExampleBatch) => out1 = ExampleCleaned

(* C10 witness: the example batch has been cleaned to its single row.      *)
C10_Witness == pc = "cleaned" /\ raw = ExampleBatch /\ out1 = ExampleCleaned

-----------------------------------------------------------------------------
(* Properties of calculate_technical_indicators, under SpecInd.            *)

Close == heap[arg]["close"]
Value(i) == Close[i].s * Close[i].n
Is100(x) == x.k = "fin" /\ x.s = 1 /\ x.n = 100 * x.d

(* No per-step change in the 14 changes ending at row i is a loss.         *)
NoLossInWindow(i) == \A j \in (i - 13)..i : Value(j) >= Value(j - 1)

(* C5 as claimed: at every row whose 14 changes are all available and hold *)
(* no loss, RSI is 100.                                                    *)
C5_ZeroLossIs100 ==
    ipc = "done" =>
        \A i \in 1..Len(Close) :
            (i >= 15 /\ NoLossInWindow(i)) => Is100(heap[arg]["RSI"][i])

(* C6 as claimed: RSI is undefined at each of the first 14 rows.           *)
C6_UndefinedBefore15 ==
    ipc = "done" =>
        \A i \in 1..Len(Close) : i <= 14 => heap[arg]["RSI"][i].k = "nan"

RECURSIVE SumValues(_, _)
SumValues(lo, hi) == IF lo > hi THEN 0 ELSE Value(hi) + SumValues(lo, hi - 1)

IsTrailingMean(col, N) ==
    \A i \in 1..Len(Close) :
        /\ i < N => col[i].k = "nan"
        /\ i >= N => /\ col[i].k = "fin"
                     /\ col[i].s * col[i].n * N = col[i].d * SumValues(i - N + 1, i)

(* C7: SMA_N, N in {20, 50}, is undefined on the rows before the N-th and  *)
(* is the arithmetic mean of the N closes ending at the row from the N-th  *)
(* row on.                                                                 *)
C7_TrailingMean ==
    ipc = "done" =>
        /\ Len(heap[arg]["SMA_20"]) = Len(Close)
        /\ Len(heap[arg]["SMA_50"]) = Len(Close)
        /\ IsTrailingMean(heap[arg]["SMA_20"], 20)
        /\ IsTrailingMean(heap[arg]["SMA_50"], 50)

(* C7 witness: a series of more than 50 closes that are not all equal has  *)
(* been annotated, and SMA_50 is defined at its 50th row.                  *)
C7_Witness ==
    /\ ipc = "done"
    /\ Len(Close) > 50
    /\ Value(1) # Value(50)
    /\ Value(50) # Value(51)
    /\ heap[arg]["SMA_50"][50].k = "fin"
    /\ heap[arg]["SMA_20"][19].k = "nan"

(* C8 as claimed: after the call the caller's frame has the columns and    *)
(* values it had before, and the result is another object.                 *)
C8_ArgumentUnchanged ==
    (ipc = "done" /\ Len(before["close"]) >= 1) =>
        /\ DOMAIN heap[arg] = DOMAIN before
        /\ heap[arg]["close"] = before["close"]
        /\ ret # arg

=============================================================================
